---- MODULE Spec2Model ----
(***************************************************************************)
(* Model of the cross-process admin-action queue (admin_actions table,     *)
(* enqueue_action, run_admin_action_worker) and of the summary-settings    *)
(* watcher (watch_summary_settings) of TelegramForwarder.                   *)
(*                                                                         *)
(* Nullable columns and Optional values are sequences of length <= 1:      *)
(* NULL is <<>> and a present value v is <<v>>.  The Chinese exception      *)
(* texts of the source are written in ASCII; the text next to each         *)
(* definition gives the original.                                          *)
(***************************************************************************)
EXTENDS Integers, Sequences, FiniteSets, TLC

(***************************************************************************)
(* Bounds of the model.                                                    *)
(***************************************************************************)
NumDispatchers == 2      \* worker instances polling the same table
MaxShared == 1           \* rows inserted while several instances poll
MaxRecords == 2          \* rows inserted while one instance polls
MaxFaults == 1           \* storage operations that raise before storage recovers
BatchSize == 2           \* the batch_size argument of run_admin_action_worker
MaxRule == 2             \* largest id of a ForwardRule row
MaxEdits == 2            \* commits to the ForwardRule table between two wake-ups
                         \* of the watcher
MaxExcess == 1           \* how far the lengths of exception messages go beyond
                         \* the limit of the error column, and stay below it

Dispatchers == 1..NumDispatchers

NULL == <<>>
Some(v) == <<v>>

(***************************************************************************)
(* Program constants.                                                      *)
(***************************************************************************)
ErrorLimit == 2000       \* error[:2000] in _mark_action_error

MsgRuleIdEmpty == "rule_id must not be empty"      \* "rule_id 不能为空"
MsgSchedulerNotReady == "scheduler not ready"      \* "scheduler 未就绪"
MsgDbOpsNotReady == "db_ops not ready"             \* "db_ops 未就绪"
MsgChatUpdaterNotReady == "chat_updater not ready" \* "chat_updater 未就绪"
MsgUnknownAction(action) == "unknown action: " \o action  \* f"未知 action: {action}"
MsgStorage == "storage error"       \* str() of an exception raised by the database
MsgHandler == "handler failed"      \* str() of an exception raised by a collaborator

SupportedActions == {"summary_now", "summary_all_now", "ufb_sync", "update_chats_now"}
AllActionInputs == SupportedActions \cup {"bogus"}
FewActionInputs == {"summary_now", "bogus"}
RuleIdInputs == {NULL, Some(42)}
\* the operations _process_one_action looks up with hasattr: two of
\* scheduler, one of db_ops, one of chat_updater
Operations == {"_execute_summary", "execute_all_summaries", "sync_to_server",
               "_update_all_chats"}
ClockReadings == {0, 1}  \* values of int(time.time() * 1000)

\* the budget of storage faults: a number, or NoLimit
NoLimit == -1
Spent(f) == IF f = NoLimit THEN NoLimit ELSE f - 1

VARIABLES
    store,        \* the admin_actions table: row id i is store[i]
    now,          \* the clock read by time.time()
    ready,        \* per operation, whether its collaborator is present and has it
    faults,       \* storage operations that may still raise
    pc,           \* position of each run_admin_action_worker instance
    batch,        \* the rows of the current poll that are still to be processed
    calls,        \* per row id, the collaborator operations invoked for it
    attempts,     \* per row id, how many claim UPDATEs were issued for it
    wins,         \* per row id, how many claim UPDATEs changed the row
    winTime,      \* per row id, the processed_at written by a changing claim UPDATE
    returned,     \* per row id, how often _process_one_action returned for it
    outcomes,     \* per row id, how the invoked collaborator operations ended
    faulted,      \* the row ids for which a storage operation raised
    schema,       \* whether the admin_actions table and its index exist
    issued,       \* the values enqueue_action returned, in the order of the calls
    together,     \* the pairs of row ids a < b that one SELECT found both pending
    cancelled,    \* the worker instances task.cancel() was called on
    exc_text      \* str(exc) of the exceptions that collaborator operations raise

dvars == <<store, now, ready, faults, pc, batch, calls, attempts, wins, winTime,
           returned, outcomes, faulted, schema, issued, together, cancelled,
           exc_text>>

VARIABLES
    rows,             \* the result of the last successful query of ForwardRule
    todo,             \* the rule ids of rows the for loop has not reached yet
    last_signatures,  \* the dict of watch_summary_settings
    initialized,      \* the flag of watch_summary_settings
    removedLeft,      \* the removed ids the second for loop has not reached yet
    tasks,            \* scheduler.tasks: the rule ids that have a job
    wpc,              \* position of watch_summary_settings
    cycleCalls,       \* the schedule_rule calls issued since the last read
    cycle,            \* facts about the cycle of the last read
    baseline,         \* the signatures read by the last cycle, if it completed
    due,              \* tracked rules with a job that the reads stopped returning
    dis,              \* per rule, disabling calls since the reads stopped returning it
    told,             \* per audited rule, the arguments of the last schedule_rule
                      \* call that returned
    audited,          \* the rules for which told is recorded
    wcancelled,       \* whether task.cancel() was called on the watcher
    gone,             \* the audited rules that were popped from last_signatures
                      \* and not stored again before the last sleep
    forward_rules     \* the ForwardRule table: its contents since the watcher
                      \* last woke, the current contents last

wvars == <<rows, todo, last_signatures, initialized, removedLeft, tasks, wpc,
           cycleCalls, cycle, baseline, due, dis, told, audited, wcancelled,
           gone, forward_rules>>

vars == <<dvars, wvars>>

(***************************************************************************)
(* The admin_actions table and its SQL statements.                         *)
(***************************************************************************)
Min(a, b) == IF a < b THEN a ELSE b

RECURSIVE Ascending(_)
Ascending(S) ==
    IF S = {} THEN <<>>
    ELSE LET m == CHOOSE x \in S : \A y \in S : x <= y
         IN <<m>> \o Ascending(S \ {m})

\* the database file as a statement sees it; raised tells whether a statement
\* of ensure_actions_table raised
Database(sch, s) ==
    [table |-> sch.table, index |-> sch.index, rows |-> s, raised |-> FALSE]

SchemaOf(db) == [table |-> db.table, index |-> db.index]

\* CREATE TABLE admin_actions (...), which raises when the table exists
CreateTable(db) ==
    IF db.table THEN [db EXCEPT !.raised = TRUE]
    ELSE [db EXCEPT !.table = TRUE, !.rows = <<>>]

\* CREATE TABLE IF NOT EXISTS admin_actions (...)
CreateTableIfNotExists(db) ==
    IF db.table THEN db ELSE [db EXCEPT !.table = TRUE, !.rows = <<>>]

\* CREATE INDEX IF NOT EXISTS idx_admin_actions_status_id ON admin_actions(status, id)
CreateIndexIfNotExists(db) ==
    IF db.index THEN db ELSE [db EXCEPT !.index = TRUE]

EnsureActionsTable(db) == CreateIndexIfNotExists(CreateTableIfNotExists(db))

\* the table as the statement after ensure_actions_table(session) finds it
Ensured == EnsureActionsTable(Database(schema, store))

\* INSERT OR REPLACE writing over the newest row
InsertActionReplacing(s, action, rule_id, created_at) ==
    LET new == [action |-> action, rule_id |-> rule_id, payload |-> "{}",
                status |-> "pending", error |-> NULL,
                created_at |-> created_at, processed_at |-> NULL]
    IN IF s = <<>> THEN <<new>> ELSE [s EXCEPT ![Len(s)] = new]

\* an INSERT that is skipped while a pending row has the action and rule_id
InsertActionUnlessPending(s, action, rule_id, created_at) ==
    IF \E i \in DOMAIN s : /\ s[i].status = "pending"
                           /\ s[i].action = action
                           /\ s[i].rule_id = rule_id
    THEN s
    ELSE Append(s, [action |-> action, rule_id |-> rule_id, payload |-> "{}",
                    status |-> "pending", error |-> NULL,
                    created_at |-> created_at, processed_at |-> NULL])

\* INSERT INTO admin_actions(action, rule_id, payload, status, created_at)
InsertAction(s, action, rule_id, created_at) ==
    Append(s, [action |-> action, rule_id |-> rule_id, payload |-> "{}",
               status |-> "pending", error |-> NULL,
               created_at |-> created_at, processed_at |-> NULL])

\* result.lastrowid: id is INTEGER PRIMARY KEY AUTOINCREMENT
LastRowId(s) == Len(s)

\* the SELECT with "WHERE status IN ('pending', 'processing')"
SelectUnfinished(s, limit) ==
    LET ids == Ascending({i \in DOMAIN s : s[i].status \in {"pending", "processing"}})
        n == Min(limit, Len(ids))
    IN [k \in 1..n |-> [id |-> ids[k], action |-> s[ids[k]].action,
                        rule_id |-> s[ids[k]].rule_id]]

\* the SELECT without "LIMIT :limit"
SelectPendingUnlimited(s, limit) ==
    LET ids == Ascending({i \in DOMAIN s : s[i].status = "pending"})
    IN [k \in 1..Len(ids) |-> [id |-> ids[k], action |-> s[ids[k]].action,
                               rule_id |-> s[ids[k]].rule_id]]

\* SELECT id, action, rule_id, payload FROM admin_actions
\* WHERE status = 'pending' ORDER BY id ASC LIMIT :limit
SelectPending(s, limit) ==
    LET ids == Ascending({i \in DOMAIN s : s[i].status = "pending"})
        n == Min(limit, Len(ids))
    IN [k \in 1..n |-> [id |-> ids[k], action |-> s[ids[k]].action,
                        rule_id |-> s[ids[k]].rule_id]]

\* the claim UPDATE without "AND status = 'pending'"
ClaimUpdateUnconditional(s, id, processed_at) ==
    [i \in DOMAIN s |->
        IF i = id
        THEN [s[i] EXCEPT !.status = "processing",
                          !.processed_at = Some(processed_at),
                          !.error = NULL]
        ELSE s[i]]

\* the claim UPDATE with "created_at = :processed_at" in its SET clause
ClaimUpdateStampingCreation(s, id, processed_at) ==
    [i \in DOMAIN s |->
        IF i = id /\ s[i].status = "pending"
        THEN [s[i] EXCEPT !.status = "processing",
                          !.processed_at = Some(processed_at),
                          !.created_at = processed_at,
                          !.error = NULL]
        ELSE s[i]]

\* UPDATE admin_actions SET status = 'processing', processed_at = :processed_at,
\* error = NULL WHERE id = :id AND status = 'pending'
ClaimUpdate(s, id, processed_at) ==
    [i \in DOMAIN s |->
        IF i = id /\ s[i].status = "pending"
        THEN [s[i] EXCEPT !.status = "processing",
                          !.processed_at = Some(processed_at),
                          !.error = NULL]
        ELSE s[i]]

\* the done UPDATE writing the wrong status
MarkActionDoneAsError(s, id) ==
    [i \in DOMAIN s |->
        IF i = id THEN [s[i] EXCEPT !.status = "error", !.error = NULL] ELSE s[i]]

\* the done UPDATE without "error=NULL"
MarkActionDoneKeepingError(s, id) ==
    [i \in DOMAIN s |-> IF i = id THEN [s[i] EXCEPT !.status = "done"] ELSE s[i]]

\* UPDATE admin_actions SET status='done', error=NULL WHERE id=:id
MarkActionDone(s, id) ==
    [i \in DOMAIN s |->
        IF i = id THEN [s[i] EXCEPT !.status = "done", !.error = NULL] ELSE s[i]]

\* error[-2000:] in place of error[:2000]
TruncateKeepingEnd(text) ==
    IF Len(text) > ErrorLimit
    THEN SubSeq(text, Len(text) - ErrorLimit + 1, Len(text)) ELSE text

\* error[:2000]
Truncate(text) ==
    IF Len(text) > ErrorLimit THEN SubSeq(text, 1, ErrorLimit) ELSE text

\* the error UPDATE without "WHERE id=:id"
MarkActionErrorAllRows(s, id, error) ==
    [i \in DOMAIN s |-> [s[i] EXCEPT !.status = "error", !.error = Some(Truncate(error))]]

\* UPDATE admin_actions SET status='error', error=:error WHERE id=:id
MarkActionError(s, id, error) ==
    [i \in DOMAIN s |->
        IF i = id THEN [s[i] EXCEPT !.status = "error", !.error = Some(Truncate(error))]
        ELSE s[i]]

(***************************************************************************)
(* The routing of _process_one_action: what the try block does before its  *)
(* first await.  Either it raises msg, or it invokes operation op of a     *)
(* collaborator with argument arg.                                         *)
(***************************************************************************)
Raise(msg) == [raises |-> TRUE, msg |-> msg, op |-> "", arg |-> NULL]
\* every operation called without the rule id
InvokeWithoutRuleId(op, arg) == [raises |-> FALSE, msg |-> "", op |-> op, arg |-> NULL]

Invoke(op, arg) == [raises |-> FALSE, msg |-> "", op |-> op, arg |-> arg]

\* "if rule_id == 0" in place of "if not rule_id"
NotRuleIdZeroOnly(rule_id) == rule_id = Some(0)

\* Python's "not rule_id": None and 0 are both falsy
NotRuleId(rule_id) == rule_id = NULL \/ rule_id = Some(0)

Route(action, rule_id, rdy) ==
    IF action = "summary_now" THEN
        IF NotRuleId(rule_id) THEN Raise(MsgRuleIdEmpty)
        ELSE IF ~rdy["_execute_summary"] THEN Raise(MsgSchedulerNotReady)
        ELSE Invoke("_execute_summary", rule_id)
    ELSE IF action = "summary_all_now" THEN
        IF ~rdy["execute_all_summaries"] THEN Raise(MsgSchedulerNotReady)
        ELSE Invoke("execute_all_summaries", NULL)
    ELSE IF action = "ufb_sync" THEN
        IF NotRuleId(rule_id) THEN Raise(MsgRuleIdEmpty)
        ELSE IF ~rdy["sync_to_server"] THEN Raise(MsgDbOpsNotReady)
        ELSE Invoke("sync_to_server", rule_id)
    ELSE IF action = "update_chats_now" THEN
        IF ~rdy["_update_all_chats"] THEN Raise(MsgChatUpdaterNotReady)
        ELSE Invoke("_update_all_chats", NULL)
    ELSE Raise(MsgUnknownAction(action))

Bump(f, id) == [f EXCEPT ![id] = @ + 1]

(***************************************************************************)
(* enqueue_action, called by the web management process.                   *)
(***************************************************************************)
Enqueue(limit, action, rule_id) ==
    /\ Len(store) < limit
    /\ \E t \in {c \in ClockReadings : c >= now} :
          /\ now' = t
          /\ store' = InsertAction(Ensured.rows, action, rule_id, t)
    /\ schema' = SchemaOf(Ensured)
    /\ issued' = Append(issued, LastRowId(store'))
    /\ UNCHANGED <<ready, faults, pc, batch, calls, attempts, wins, winTime,
                   returned, outcomes, faulted, together, cancelled>>
    /\ UNCHANGED exc_text
    /\ UNCHANGED wvars

(***************************************************************************)
(* run_admin_action_worker: one instance d.                                *)
(***************************************************************************)
Cur(d) == Head(batch[d])

\* _process_one_action returned: the for loop goes on, or the while loop
\* starts its next iteration (there is no sleep after a non-empty batch)
RecordDone(d) ==
    /\ batch' = [batch EXCEPT ![d] = Tail(@)]
    /\ pc' = [pc EXCEPT ![d] = IF Len(batch[d]) = 1 THEN "poll" ELSE "claim"]
    /\ returned' = Bump(returned, Cur(d).id)

\* the loop without "except Exception": the exception ends the task
LoopErrorEndsTask(d) ==
    /\ batch' = [batch EXCEPT ![d] = <<>>]
    /\ pc' = [pc EXCEPT ![d] = "exited"]
    /\ UNCHANGED returned

\* a for loop that catches the exception of a row itself and goes on with
\* the next row of the batch
LoopErrorContinues(d) ==
    /\ batch' = [batch EXCEPT ![d] = Tail(@)]
    /\ pc' = [pc EXCEPT ![d] = IF Len(batch[d]) = 1 THEN "poll" ELSE "claim"]
    /\ UNCHANGED returned

\* an exception left _process_one_action: "except Exception" of the loop
\* logs it and sleeps, the rest of the batch is dropped
LoopError(d) ==
    /\ batch' = [batch EXCEPT ![d] = <<>>]
    /\ pc' = [pc EXCEPT ![d] = "sleep"]
    /\ UNCHANGED returned

\* the pairs of rows that the WHERE clause of the SELECT matches together
PendingPairs(s) ==
    {p \in (DOMAIN s) \X (DOMAIN s) :
        p[1] < p[2] /\ s[p[1]].status = "pending" /\ s[p[2]].status = "pending"}

\* the SELECT of pending rows
Poll(d) ==
    /\ pc[d] = "poll"
    /\ \/ /\ batch' = [batch EXCEPT ![d] = SelectPending(Ensured.rows, BatchSize)]
          /\ pc' = [pc EXCEPT ![d] = IF batch'[d] = <<>> THEN "sleep" ELSE "claim"]
          /\ store' = Ensured.rows
          /\ schema' = SchemaOf(Ensured)
          /\ together' = together \cup PendingPairs(Ensured.rows)
          /\ UNCHANGED faults
       \/ /\ faults # 0
          /\ faults' = Spent(faults)
          /\ pc' = [pc EXCEPT ![d] = "sleep"]
          /\ \/ UNCHANGED <<store, schema>>
             \/ /\ store' = Ensured.rows
                /\ schema' = SchemaOf(Ensured)
          /\ UNCHANGED <<batch, together>>
    /\ UNCHANGED <<now, ready, calls, attempts, wins, winTime, returned,
                   outcomes, faulted, issued, cancelled>>
    /\ UNCHANGED exc_text
    /\ UNCHANGED wvars

\* asyncio.sleep(poll_interval_seconds) returns
Wake(d) ==
    /\ pc[d] = "sleep"
    /\ pc' = [pc EXCEPT ![d] = "poll"]
    /\ UNCHANGED <<store, now, ready, faults, batch, calls, attempts, wins, winTime,
                   returned, outcomes, faulted, schema, issued, together, cancelled>>
    /\ UNCHANGED exc_text
    /\ UNCHANGED wvars

\* _process_one_action up to the commit of the claim UPDATE
Claim(d) ==
    /\ pc[d] = "claim"
    /\ LET id == Cur(d).id IN
       \/ \E t \in {c \in ClockReadings : c >= now} :
             /\ now' = t
             /\ store' = ClaimUpdate(Ensured.rows, id, t)
             /\ schema' = SchemaOf(Ensured)
             /\ attempts' = Bump(attempts, id)
             /\ wins' = IF store' # store THEN Bump(wins, id) ELSE wins
             /\ winTime' = IF store' # store THEN [winTime EXCEPT ![id] = Some(t)]
                           ELSE winTime
             /\ pc' = [pc EXCEPT ![d] = "exec"]
             /\ UNCHANGED <<faults, batch, returned, faulted>>
       \/ /\ faults # 0
          /\ faults' = Spent(faults)
          /\ faulted' = faulted \cup {id}
          /\ LoopError(d)
          /\ UNCHANGED <<store, now, attempts, wins, winTime, schema>>
    /\ UNCHANGED <<ready, calls, outcomes, issued, together, cancelled>>
    /\ UNCHANGED exc_text
    /\ UNCHANGED wvars

\* _mark_action_error(action_id, str(exc)) in the except clause of
\* _process_one_action; when its UPDATE raises too, the exception leaves
\* _process_one_action
WriteError(d, msg) ==
    LET id == Cur(d).id IN
    \/ /\ store' = MarkActionError(Ensured.rows, id, msg)
       /\ schema' = SchemaOf(Ensured)
       /\ RecordDone(d)
       /\ UNCHANGED <<faults, faulted>>
    \/ /\ faults # 0
       /\ faults' = Spent(faults)
       /\ faulted' = faulted \cup {id}
       /\ LoopError(d)
       /\ UNCHANGED <<store, schema>>

\* _mark_action_done(action_id); an exception of its UPDATE is caught by the
\* except clause, which then writes the error outcome
WriteDone(d) ==
    LET id == Cur(d).id IN
    \/ /\ store' = MarkActionDone(Ensured.rows, id)
       /\ schema' = SchemaOf(Ensured)
       /\ RecordDone(d)
       /\ UNCHANGED <<faults, faulted>>
    \/ /\ faults # 0
       /\ faulted' = faulted \cup {id}
       /\ \/ /\ faults' = Spent(faults)
             /\ store' = MarkActionError(Ensured.rows, id, MsgStorage)
             /\ schema' = SchemaOf(Ensured)
             /\ RecordDone(d)
          \/ /\ Spent(faults) # 0
             /\ faults' = Spent(Spent(faults))
             /\ LoopError(d)
             /\ UNCHANGED <<store, schema>>

\* the try block up to its await: the checks raise, or the collaborator
\* operation is invoked
Execute(d) ==
    /\ pc[d] = "exec"
    /\ LET row == Cur(d)
           r == Route(row.action, row.rule_id, ready)
       IN IF r.raises
          THEN /\ WriteError(d, r.msg)
               /\ UNCHANGED calls
          ELSE /\ calls' = [calls EXCEPT ![row.id] = Append(@, <<r.op, r.arg>>)]
               /\ pc' = [pc EXCEPT ![d] = "await"]
               /\ UNCHANGED <<store, faults, batch, returned, faulted, schema>>
    /\ UNCHANGED <<now, ready, attempts, wins, winTime, outcomes, issued, together, cancelled>>
    /\ UNCHANGED exc_text
    /\ UNCHANGED wvars

\* a collaborator operation that clears the signatures the watcher remembers
\* before it returns
HandlerReturnForgettingSignatures(d) ==
    /\ pc[d] = "await"
    /\ outcomes' = [outcomes EXCEPT ![Cur(d).id] = Append(@, "returned")]
    /\ WriteDone(d)
    /\ last_signatures' = [r \in DOMAIN last_signatures |-> NULL]
    /\ UNCHANGED <<now, ready, calls, attempts, wins, winTime, issued, together, cancelled>>
    /\ UNCHANGED exc_text
    /\ UNCHANGED <<rows, todo, initialized, removedLeft, tasks, wpc, cycleCalls,
                   cycle, baseline, due, dis, told, audited, wcancelled, gone,
                   forward_rules>>

\* the awaited collaborator operation returns; the operations of the worker
\* leave the jobs of the scheduler and what the watcher remembers as they are
HandlerReturn(d) ==
    /\ pc[d] = "await"
    /\ outcomes' = [outcomes EXCEPT ![Cur(d).id] = Append(@, "returned")]
    /\ WriteDone(d)
    /\ UNCHANGED <<now, ready, calls, attempts, wins, winTime, issued, together, cancelled>>
    /\ UNCHANGED exc_text
    /\ UNCHANGED wvars

\* the awaited collaborator operation raises an Exception
HandlerRaise(d) ==
    /\ pc[d] = "await"
    /\ outcomes' = [outcomes EXCEPT ![Cur(d).id] = Append(@, "raised")]
    /\ WriteError(d, exc_text)
    /\ UNCHANGED <<now, ready, calls, attempts, wins, winTime, issued, together, cancelled>>
    /\ UNCHANGED exc_text
    /\ UNCHANGED wvars

\* "except asyncio.CancelledError" with "continue" in place of "break"
CancelContinues(d) ==
    /\ pc[d] \in {"sleep", "await"}
    /\ cancelled' = cancelled \cup {d}
    /\ pc' = [pc EXCEPT ![d] = "poll"]
    /\ batch' = [batch EXCEPT ![d] = <<>>]
    /\ UNCHANGED <<store, now, ready, faults, calls, attempts, wins, winTime,
                   returned, outcomes, faulted, schema, issued, together>>
    /\ UNCHANGED exc_text
    /\ UNCHANGED wvars

\* task.cancel(): CancelledError is raised at the await the task is suspended
\* at; it is not an Exception, so only "except asyncio.CancelledError: break"
\* of the loop handles it
Cancel(d) ==
    /\ pc[d] \in {"sleep", "await"}
    /\ cancelled' = cancelled \cup {d}
    /\ pc' = [pc EXCEPT ![d] = "exited"]
    /\ batch' = [batch EXCEPT ![d] = <<>>]
    /\ UNCHANGED <<store, now, ready, faults, calls, attempts, wins, winTime,
                   returned, outcomes, faulted, schema, issued, together>>
    /\ UNCHANGED exc_text
    /\ UNCHANGED wvars

\* the process that runs the worker dies, at any point between two committed
\* statements: what the task held in memory is lost, the table is kept
Crash(d) ==
    /\ pc[d] \notin {"exited", "crashed"}
    /\ pc' = [pc EXCEPT ![d] = "crashed"]
    /\ batch' = [batch EXCEPT ![d] = <<>>]
    /\ UNCHANGED <<store, now, ready, faults, calls, attempts, wins, winTime,
                   returned, outcomes, faulted, schema, issued, together, cancelled>>
    /\ UNCHANGED exc_text
    /\ UNCHANGED wvars

\* the process is started again: run_admin_action_worker begins with its
\* first SELECT
Restart(d) ==
    /\ pc[d] = "crashed"
    /\ pc' = [pc EXCEPT ![d] = "poll"]
    /\ UNCHANGED <<store, now, ready, faults, batch, calls, attempts, wins, winTime,
                   returned, outcomes, faulted, schema, issued, together, cancelled>>
    /\ UNCHANGED exc_text
    /\ UNCHANGED wvars

\* a collaborator that failed the check of _process_one_action passes it
\* from now on: the checks are evaluated anew for every record
BecomeReady(op) ==
    /\ ~ready[op]
    /\ ready' = [ready EXCEPT ![op] = TRUE]
    /\ UNCHANGED <<store, now, faults, pc, batch, calls, attempts, wins, winTime,
                   returned, outcomes, faulted, schema, issued, together, cancelled>>
    /\ UNCHANGED exc_text
    /\ UNCHANGED wvars

Step(d) ==
    \/ Poll(d)
    \/ Wake(d)
    \/ Claim(d)
    \/ Execute(d)
    \/ HandlerReturn(d)
    \/ HandlerRaise(d)

MaxBacklog == BatchSize + 1   \* rows inserted when a SELECT is to leave rows behind
MaxRows ==
    LET m == IF MaxShared > MaxRecords THEN MaxShared ELSE MaxRecords
    IN IF MaxBacklog > m THEN MaxBacklog ELSE m
ZeroCounts == [i \in 1..MaxRows |-> 0]
NoLogs == [i \in 1..MaxRows |-> <<>>]

InitStore ==
    /\ store = <<>>
    /\ now = 0
    /\ batch = [d \in Dispatchers |-> <<>>]
    /\ calls = NoLogs
    /\ attempts = ZeroCounts
    /\ wins = ZeroCounts
    /\ winTime = [i \in 1..MaxRows |-> NULL]
    /\ returned = ZeroCounts
    /\ outcomes = NoLogs
    /\ faulted = {}
    /\ schema = [table |-> FALSE, index |-> FALSE]
    /\ issued = <<>>
    /\ together = {}
    /\ cancelled = {}

(***************************************************************************)
(* watch_summary_settings.                                                 *)
(***************************************************************************)
RuleIds == 1..MaxRule

Row(is_summary, summary_time, summary_prompt, is_top_summary) ==
    [is_summary |-> is_summary, summary_time |-> summary_time,
     summary_prompt |-> summary_prompt, is_top_summary |-> is_top_summary]

\* the column values a ForwardRule row is read with
RowValues ==
    {Row(Some(TRUE), Some("09:00"), NULL, Some(FALSE)),
     Row(Some(TRUE), Some("10:00"), NULL, Some(FALSE)),
     Row(Some(FALSE), Some("09:00"), NULL, Some(FALSE)),
     Row(Some(TRUE), Some("09:00"), Some("p"), Some(FALSE)),
     Row(Some(TRUE), Some("09:00"), NULL, Some(TRUE)),
     Row(NULL, NULL, Some(""), NULL)}

\* the results of the query: per rule id, no row or a row
Reads == [RuleIds -> {NULL} \cup {Some(v) : v \in RowValues}]

\* a table with at most one rule, which is enabled, disabled or has null columns
FewRowValues ==
    {Row(Some(TRUE), Some("09:00"), NULL, Some(FALSE)),
     Row(Some(FALSE), Some("09:00"), NULL, Some(FALSE)),
     Row(NULL, NULL, Some(""), NULL)}

FewReads ==
    {read \in Reads :
        /\ read[1] \in {NULL} \cup {Some(v) : v \in FewRowValues}
        /\ \A r \in RuleIds \ {1} : read[r] = NULL}

\* bool(x)
Bool(x) == x = Some(TRUE)

\* str(x or default)
StrOr(x, default) == IF x = NULL \/ x = Some("") THEN default ELSE x[1]

\* a signature that leaves out summary_prompt and is_top_summary
SignatureOfTwo(row) ==
    <<Bool(row.is_summary), StrOr(row.summary_time, ""), "", FALSE>>

\* (bool(is_summary), str(summary_time or ""), str(summary_prompt or ""),
\*  bool(is_top_summary))
Signature(row) ==
    <<Bool(row.is_summary), StrOr(row.summary_time, ""),
      StrOr(row.summary_prompt, ""), Bool(row.is_top_summary)>>

\* SimpleNamespace(id=rule_id, is_summary=bool(is_summary),
\*                 summary_time=str(summary_time or "00:00"))
UpdateCall(rule_id, row) ==
    [id |-> rule_id, is_summary |-> Bool(row.is_summary),
     summary_time |-> StrOr(row.summary_time, "00:00")]

\* SimpleNamespace(id=removed_id, is_summary=False, summary_time="00:00")
DisableCall(removed_id) ==
    [id |-> removed_id, is_summary |-> FALSE, summary_time |-> "00:00"]

CurrentIds(read) == {r \in RuleIds : read[r] # NULL}

\* the loop body without "if not initialized: ...; continue"
SkipsWithoutBootstrap(init, last, rule_id, signature) ==
    last[rule_id] = Some(signature)

\* the loop body without "if last_signatures.get(rule_id) == signature: continue"
SkipsOnlyAtBootstrap(init, last, rule_id, signature) == ~init

\* a loop body that also goes on to the call when the table was committed
\* to since the watcher woke
SkipsUnlessCommitted(init, last, rule_id, signature) ==
    \/ ~init
    \/ /\ last[rule_id] = Some(signature)
       /\ Len(forward_rules) = 1

\* a loop body that also goes on to the call when the scheduler's jobs
\* disagree with the enabled flag of the row
SkipsWhenSchedulerAgrees(init, last, rule_id, signature) ==
    \/ ~init
    \/ /\ last[rule_id] = Some(signature)
       /\ signature[1] = (rule_id \in tasks)

\* "if not initialized: ...; continue" and
\* "if last_signatures.get(rule_id) == signature: continue"
Skips(init, last, rule_id, signature) ==
    ~init \/ last[rule_id] = Some(signature)

\* a removal loop that goes only through the removed rules that have a job
RemovedWithJob(last, current_ids) ==
    {r \in RuleIds : last[r] # NULL /\ r \in tasks} \ current_ids

\* set(last_signatures.keys()) - current_ids
Removed(last, current_ids) == {r \in RuleIds : last[r] # NULL} \ current_ids

\* the second loop without the pop
PopNothing(last, removed_id) == last

\* last_signatures.pop(removed_id, None)
Pop(last, removed_id) == [last EXCEPT ![removed_id] = NULL]

\* what a schedule_rule call that returns does to scheduler.tasks
ScheduleRule(jobs, call) ==
    IF call.is_summary THEN jobs \cup {call.id} ELSE jobs \ {call.id}

\* the (is_summary, summary_time) a schedule_rule call carries
Arguments(call) == <<call.is_summary, call.summary_time>>

\* told after a call returned
Heard(heard, call) ==
    IF call.id \in audited THEN [heard EXCEPT ![call.id] = Some(Arguments(call))]
    ELSE heard

SigsOf(read) ==
    [r \in RuleIds |-> IF read[r] = NULL THEN NULL ELSE Some(Signature(read[r][1]))]

Capped(n) == IF n < 2 THEN n + 1 ELSE n

\* the disabling calls counted for the rules the reads stopped returning
Counted(call) ==
    [r \in RuleIds |->
        IF r = call.id /\ r \in due /\ ~call.is_summary THEN Capped(dis[r]) ELSE dis[r]]

NoRows == [r \in RuleIds |-> NULL]
NoCycle == [bootstrap |-> FALSE, quiet |-> FALSE, changed |-> {}, ended |-> "none"]

\* the query of ForwardRule returns one of reads, or raises
WRead(reads) ==
    /\ wpc = "read"
    /\ \/ \E read \in reads :
             /\ rows' = read
             /\ todo' = Ascending(CurrentIds(read))
             /\ cycleCalls' = <<>>
             /\ cycle' = [bootstrap |-> ~initialized,
                          quiet |-> /\ initialized
                                    /\ baseline = Some(SigsOf(read)),
                          changed |-> {r \in CurrentIds(read) :
                                          /\ initialized
                                          /\ last_signatures[r] # SigsOf(read)[r]},
                          ended |-> "running"]
             /\ due' = {r \in RuleIds \ CurrentIds(read) :
                           \/ r \in due
                           \/ /\ initialized
                              /\ last_signatures[r] # NULL
                              /\ r \in tasks}
             /\ dis' = [r \in RuleIds |-> IF r \in due' THEN dis[r] ELSE 0]
             /\ wpc' = "rows"
       \/ /\ wpc' = "sleep"
          /\ rows' = NoRows
          /\ UNCHANGED <<todo, cycleCalls, cycle, due, dis>>
    /\ UNCHANGED <<last_signatures, initialized, removedLeft, tasks, baseline, told, audited, wcancelled>>
    /\ UNCHANGED gone
    /\ UNCHANGED forward_rules
    /\ UNCHANGED dvars

\* one iteration of "for rule_id, ... in rows" up to its await
WRow ==
    /\ wpc = "rows"
    /\ todo # <<>>
    /\ LET rule_id == Head(todo)
           row == rows[rule_id][1]
           signature == Signature(row)
       IN IF Skips(initialized, last_signatures, rule_id, signature)
          THEN /\ last_signatures' =
                      IF ~initialized
                      THEN [last_signatures EXCEPT ![rule_id] = Some(signature)]
                      ELSE last_signatures
               /\ todo' = Tail(todo)
               /\ UNCHANGED <<wpc, cycleCalls, dis>>
          ELSE /\ last_signatures' = [last_signatures EXCEPT ![rule_id] = Some(signature)]
               /\ cycleCalls' = Append(cycleCalls, UpdateCall(rule_id, row))
               /\ dis' = Counted(UpdateCall(rule_id, row))
               /\ wpc' = "call"
               /\ UNCHANGED todo
    /\ UNCHANGED <<rows, initialized, removedLeft, tasks, cycle, baseline, due, told, audited, wcancelled>>
    /\ UNCHANGED gone
    /\ UNCHANGED forward_rules
    /\ UNCHANGED dvars

\* the first for loop is over: "if initialized: removed = ..."
WRowsDone ==
    /\ wpc = "rows"
    /\ todo = <<>>
    /\ removedLeft' = IF initialized THEN Removed(last_signatures, CurrentIds(rows))
                      ELSE {}
    /\ wpc' = "removed"
    /\ UNCHANGED <<rows, todo, last_signatures, initialized, tasks, cycleCalls,
                   cycle, baseline, due, dis, told, audited, wcancelled>>
    /\ UNCHANGED gone
    /\ UNCHANGED forward_rules
    /\ UNCHANGED dvars

\* one iteration of "for removed_id in removed" up to its await
WRemove ==
    /\ wpc = "removed"
    /\ \E removed_id \in removedLeft :
          /\ removedLeft' = removedLeft \ {removed_id}
          /\ last_signatures' = Pop(last_signatures, removed_id)
          /\ gone' = IF removed_id \in audited THEN gone \cup {removed_id} ELSE gone
          /\ IF removed_id \in tasks
             THEN /\ cycleCalls' = Append(cycleCalls, DisableCall(removed_id))
                  /\ dis' = Counted(DisableCall(removed_id))
                  /\ wpc' = "rcall"
             ELSE UNCHANGED <<cycleCalls, dis, wpc>>
    /\ UNCHANGED <<rows, todo, initialized, tasks, cycle, baseline, due, told, audited, wcancelled>>
    /\ UNCHANGED forward_rules
    /\ UNCHANGED dvars

\* "initialized = True" and the sleep at the end of the cycle
WCycleDone ==
    /\ wpc = "removed"
    /\ removedLeft = {}
    /\ initialized' = TRUE
    /\ cycle' = [cycle EXCEPT !.ended = "completed"]
    /\ baseline' = Some(SigsOf(rows))
    /\ wpc' = "sleep"
    /\ UNCHANGED <<rows, todo, last_signatures, removedLeft, tasks, cycleCalls,
                   due, dis, told, audited, wcancelled>>
    /\ UNCHANGED gone
    /\ UNCHANGED forward_rules
    /\ UNCHANGED dvars

\* the awaited schedule_rule call returns
WCallReturn ==
    /\ wpc \in {"call", "rcall"}
    /\ tasks' = ScheduleRule(tasks, cycleCalls[Len(cycleCalls)])
    /\ told' = Heard(told, cycleCalls[Len(cycleCalls)])
    /\ wpc' = IF wpc = "call" THEN "rows" ELSE "removed"
    /\ todo' = IF wpc = "call" THEN Tail(todo) ELSE todo
    /\ UNCHANGED <<rows, last_signatures, initialized, removedLeft, cycleCalls,
                   cycle, baseline, due, dis, audited, wcancelled>>
    /\ UNCHANGED gone
    /\ UNCHANGED forward_rules
    /\ UNCHANGED dvars

\* a loop-level handler that clears the flag, so that the next cycle is a
\* bootstrap again
WCallRaiseClearingFlag ==
    /\ wpc \in {"call", "rcall"}
    /\ cycle' = [cycle EXCEPT !.ended = "aborted"]
    /\ baseline' = NULL
    /\ wpc' = "sleep"
    /\ todo' = <<>>
    /\ removedLeft' = {}
    /\ initialized' = FALSE
    /\ UNCHANGED <<rows, last_signatures, tasks, cycleCalls, due, dis,
                   told, audited, wcancelled>>
    /\ UNCHANGED gone
    /\ UNCHANGED forward_rules
    /\ UNCHANGED dvars

\* the awaited schedule_rule call raises an Exception: the loop logs it and
\* sleeps
WCallRaise ==
    /\ wpc \in {"call", "rcall"}
    /\ cycle' = [cycle EXCEPT !.ended = "aborted"]
    /\ baseline' = NULL
    /\ wpc' = "sleep"
    /\ todo' = <<>>
    /\ removedLeft' = {}
    /\ UNCHANGED <<rows, last_signatures, initialized, tasks, cycleCalls, due, dis,
                   told, audited, wcancelled>>
    /\ UNCHANGED gone
    /\ UNCHANGED forward_rules
    /\ UNCHANGED dvars

\* asyncio.sleep(poll_interval_seconds) returns; rows is not read again
\* before the next query assigns it, and what is recorded of a cycle is kept
\* until the sleep after it is over
WWake ==
    /\ wpc = "sleep"
    /\ wpc' = "read"
    /\ rows' = NoRows
    /\ cycleCalls' = <<>>
    /\ cycle' = NoCycle
    /\ gone' = {r \in gone : last_signatures[r] = NULL}
    /\ forward_rules' = <<forward_rules[Len(forward_rules)]>>
    /\ UNCHANGED <<todo, last_signatures, initialized, removedLeft, tasks,
                   baseline, due, dis, told, audited, wcancelled>>
    /\ UNCHANGED dvars

\* task.cancel() while the watcher is suspended at an await
WCancel ==
    /\ wpc \in {"sleep", "call", "rcall"}
    /\ wcancelled' = TRUE
    /\ wpc' = "exited"
    /\ UNCHANGED <<rows, todo, last_signatures, initialized, removedLeft, tasks,
                   cycleCalls, cycle, baseline, due, dis, told, audited>>
    /\ UNCHANGED gone
    /\ UNCHANGED forward_rules
    /\ UNCHANGED dvars

\* a commit of the web management process changes, adds or deletes the
\* ForwardRule row of rule r
Configure(r, v) ==
    /\ Len(forward_rules) <= MaxEdits
    /\ forward_rules[Len(forward_rules)][r] # v
    /\ forward_rules' =
          Append(forward_rules, [forward_rules[Len(forward_rules)] EXCEPT ![r] = v])
    /\ UNCHANGED <<rows, todo, last_signatures, initialized, removedLeft, tasks, wpc,
                   cycleCalls, cycle, baseline, due, dis, told, audited, wcancelled,
                   gone>>
    /\ UNCHANGED dvars

WStep(reads) ==
    \/ WRead(reads)
    \/ WRow
    \/ WRowsDone
    \/ WRemove
    \/ WCycleDone
    \/ WCallReturn
    \/ WCallRaise
    \/ WWake

\* the watcher starts; the scheduler has loaded some jobs at its own startup
InitWatch ==
    /\ rows = NoRows
    /\ todo = <<>>
    /\ last_signatures = [r \in RuleIds |-> NULL]
    /\ initialized = FALSE
    /\ removedLeft = {}
    /\ tasks \in SUBSET RuleIds
    /\ wpc = "read"
    /\ cycleCalls = <<>>
    /\ cycle = NoCycle
    /\ baseline = NULL
    /\ due = {}
    /\ dis = [r \in RuleIds |-> 0]
    /\ told = [r \in RuleIds |-> NULL]
    /\ wcancelled = FALSE
    /\ gone = {}
    /\ forward_rules = <<NoRows>>

\* the watcher is not running
NoWatch ==
    /\ rows = NoRows
    /\ todo = <<>>
    /\ last_signatures = [r \in RuleIds |-> NULL]
    /\ initialized = FALSE
    /\ removedLeft = {}
    /\ tasks = {}
    /\ wpc = "exited"
    /\ cycleCalls = <<>>
    /\ cycle = NoCycle
    /\ baseline = NULL
    /\ due = {}
    /\ dis = [r \in RuleIds |-> 0]
    /\ told = [r \in RuleIds |-> NULL]
    /\ wcancelled = FALSE
    /\ gone = {}
    /\ forward_rules = <<NoRows>>
    /\ audited = {}

(***************************************************************************)
(* The specifications.                                                     *)
(***************************************************************************)
SomeReady ==
    {f \in [Operations -> BOOLEAN] :
        \A op \in Operations \ {"_execute_summary"} : f[op]}

\* several worker instances poll the same table, storage works
Init ==
    /\ NoWatch
    /\ InitStore
    /\ exc_text = MsgHandler
    /\ faults = 0
    /\ ready \in SomeReady
    /\ pc = [d \in Dispatchers |-> "poll"]

Next ==
    \/ \E a \in FewActionInputs, r \in RuleIdInputs : Enqueue(MaxShared, a, r)
    \/ \E d \in Dispatchers : Step(d)
    \/ \E d \in Dispatchers : Cancel(d)

Spec == Init /\ [][Next]_vars

\* one worker instance, any storage operation may raise
InitSingle ==
    /\ NoWatch
    /\ InitStore
    /\ exc_text = MsgHandler
    /\ faults = NoLimit
    /\ ready \in SomeReady
    /\ pc = [d \in Dispatchers |-> IF d = 1 THEN "poll" ELSE "exited"]

NextSingle ==
    \/ \E a \in FewActionInputs, r \in RuleIdInputs : Enqueue(MaxRecords, a, r)
    \/ Step(1)
    \/ Cancel(1)

SpecSingle == InitSingle /\ [][NextSingle]_vars

\* one worker instance that is never cancelled and gets to run; storage
\* raises at most MaxFaults times
InitLive ==
    /\ NoWatch
    /\ InitStore
    /\ exc_text = MsgHandler
    /\ faults = MaxFaults
    /\ ready \in SomeReady
    /\ pc = [d \in Dispatchers |-> IF d = 1 THEN "poll" ELSE "exited"]

NextLive ==
    \/ \E a \in FewActionInputs, r \in RuleIdInputs : Enqueue(MaxRecords, a, r)
    \/ Step(1)

SpecLive == InitLive /\ [][NextLive]_vars /\ WF_vars(Step(1))

\* the same worker over rows of one action that needs no rule id
NextOutcome ==
    \/ Enqueue(MaxRecords, "summary_all_now", NULL)
    \/ Step(1)

SpecOutcome == InitLive /\ [][NextOutcome]_vars /\ WF_vars(Step(1))

\* the same worker over ufb_sync rows of one rule, as _enqueue_ufb_sync_if_needed
\* inserts them each time the rule is saved
NextRepeat ==
    \/ Enqueue(MaxRecords, "ufb_sync", Some(42))
    \/ Step(1)

SpecRepeat == InitLive /\ [][NextRepeat]_vars /\ WF_vars(Step(1))

\* no worker instance is running
NoWorker ==
    /\ InitStore
    /\ exc_text = MsgHandler
    /\ faults = 0
    /\ ready = [op \in Operations |-> TRUE]
    /\ pc = [d \in Dispatchers |-> "exited"]

InitW == NoWorker /\ InitWatch /\ audited = {}

NextW ==
    \/ WStep(Reads)
    \/ WCancel

SpecWatch == InitW /\ [][NextW]_vars

\* the watcher alone, never cancelled, over a table with at most one rule;
\* the returned calls of every rule are recorded.  The loop keeps running,
\* the query succeeds again and again, and of the schedule_rule calls issued
\* again and again some return
InitAudit == NoWorker /\ InitWatch /\ audited = RuleIds

NextAudit == WStep(FewReads)

SpecAudit ==
    /\ InitAudit
    /\ [][NextAudit]_vars
    /\ WF_vars(NextAudit)
    /\ SF_vars(WRead(FewReads) /\ wpc' = "rows")
    /\ SF_vars(WCallReturn)

\* the watcher alone over a table of several rules with few settings; the
\* returned calls and the removals of every rule are recorded
TrackReads == [RuleIds -> {NULL} \cup {Some(v) : v \in FewRowValues}]

InitTrack == NoWorker /\ InitWatch /\ audited = RuleIds

NextTrack ==
    \/ WStep(TrackReads)
    \/ WCancel

SpecTrack == InitTrack /\ [][NextTrack]_vars

\* the watcher alone, reading the ForwardRule table as it is at the time of
\* the query, while the row of rule 1 is changed, added and deleted
InitEdit == NoWorker /\ InitWatch /\ audited = {}

NextEdit ==
    \/ \E v \in {NULL} \cup {Some(w) : w \in FewRowValues} : Configure(1, v)
    \/ WStep({forward_rules[Len(forward_rules)]})
    \/ WCancel

SpecEdit == InitEdit /\ [][NextEdit]_vars

\* one worker instance and the watcher run side by side; any storage
\* operation may raise, and either task may be cancelled.  The rows are
\* summary_now actions, with and without a rule id; the scheduler has no job
\* when the tasks start
InitTasks ==
    /\ InitStore
    /\ exc_text = MsgHandler
    /\ faults = NoLimit
    /\ ready = [op \in Operations |-> TRUE]
    /\ pc = [d \in Dispatchers |-> IF d = 1 THEN "poll" ELSE "exited"]
    /\ InitWatch
    /\ tasks = {}
    /\ audited = {}

NextTasks ==
    \/ \E r \in RuleIdInputs : Enqueue(MaxShared, "summary_now", r)
    \/ Step(1)
    \/ Cancel(1)
    \/ WStep(FewReads)
    \/ WCancel

SpecTasks == InitTasks /\ [][NextTasks]_vars

\* one worker instance over rows of every action, known or not; any storage
\* operation may raise, any collaborator may be missing and may turn up later
InitKinds ==
    /\ NoWatch
    /\ InitStore
    /\ exc_text = MsgHandler
    /\ faults = NoLimit
    /\ ready \in [Operations -> BOOLEAN]
    /\ pc = [d \in Dispatchers |-> IF d = 1 THEN "poll" ELSE "exited"]

NextKinds ==
    \/ \E a \in AllActionInputs, r \in RuleIdInputs : Enqueue(MaxShared, a, r)
    \/ Step(1)
    \/ Cancel(1)
    \/ \E op \in Operations : BecomeReady(op)

SpecKinds == InitKinds /\ [][NextKinds]_vars

\* exception messages of every length around the limit of the error column,
\* with a first and a last character that differ from the rest
RECURSIVE Filler(_)
Filler(n) ==
    IF n = 0 THEN ""
    ELSE LET half == Filler(n \div 2)
         IN IF n % 2 = 0 THEN half \o half ELSE half \o half \o "x"

Message(n) ==
    IF n = 0 THEN "" ELSE IF n = 1 THEN "<" ELSE "<" \o Filler(n - 2) \o ">"

MessageLengths ==
    {0, 1} \cup ((ErrorLimit - MaxExcess)..(ErrorLimit + MaxExcess)) \cup {2 * ErrorLimit}

Messages == {Message(n) : n \in MessageLengths}

\* one worker instance, storage works; the exceptions of the collaborator
\* operations carry a message of any of these lengths
InitErrors ==
    /\ NoWatch
    /\ InitStore
    /\ exc_text \in Messages
    /\ faults = 0
    /\ ready \in SomeReady
    /\ pc = [d \in Dispatchers |-> IF d = 1 THEN "poll" ELSE "exited"]

NextErrors ==
    \/ \E a \in FewActionInputs, r \in RuleIdInputs : Enqueue(MaxShared, a, r)
    \/ Step(1)

SpecErrors == InitErrors /\ [][NextErrors]_vars

\* one worker instance whose process may die at any point and be started
\* again; storage works and the task is not cancelled
InitCrash ==
    /\ NoWatch
    /\ InitStore
    /\ exc_text = MsgHandler
    /\ faults = 0
    /\ ready \in SomeReady
    /\ pc = [d \in Dispatchers |-> IF d = 1 THEN "poll" ELSE "exited"]

NextCrash ==
    \/ \E a \in FewActionInputs, r \in RuleIdInputs : Enqueue(MaxRecords, a, r)
    \/ Step(1)
    \/ Crash(1)
    \/ Restart(1)

SpecCrash == InitCrash /\ [][NextCrash]_vars

\* one worker instance and more rows than one SELECT returns; storage raises
\* at most MaxFaults times and the task may be cancelled
InitBatch ==
    /\ NoWatch
    /\ InitStore
    /\ exc_text = MsgHandler
    /\ faults = MaxFaults
    /\ ready \in SomeReady
    /\ pc = [d \in Dispatchers |-> IF d = 1 THEN "poll" ELSE "exited"]

NextBatch ==
    \/ Enqueue(MaxBacklog, "summary_all_now", NULL)
    \/ Step(1)
    \/ Cancel(1)

SpecBatch == InitBatch /\ [][NextBatch]_vars

(***************************************************************************)
(* Properties of the action queue.                                         *)
(***************************************************************************)
Rows == DOMAIN store
Terminal == {"done", "error"}
LegalTransitions ==
    {<<"pending", "processing">>, <<"processing", "done">>, <<"processing", "error">>}

\* C1: every change of a row's status is pending->processing,
\* processing->done or processing->error, whatever the interleaving of
\* enqueues and worker instances.
C1_OnlyLegalTransitions ==
    [][\A i \in Rows :
          \/ store'[i].status = store[i].status
          \/ <<store[i].status, store'[i].status>> \in LegalTransitions]_vars

\* C2: the collaborator operation of a row is invoked at most once in total,
\* also when several worker instances poll the same table.
C2_InvokedAtMostOnce == \A i \in 1..MaxRows : Len(calls[i]) <= 1

\* C3: of the claim UPDATEs issued for one row, exactly one changes the row;
\* it sets status to processing and writes the processed_at the row keeps;
\* every other claim UPDATE changes nothing.
C3_ExactlyOneClaimWins ==
    \A i \in Rows :
        attempts[i] >= 1 =>
            /\ wins[i] = 1
            /\ store[i].status # "pending"
            /\ store[i].processed_at = winTime[i]
            /\ winTime[i] # NULL

C3_TwoClaimants == \E i \in Rows : attempts[i] = 2

\* C4: with a worker that keeps polling and is not cancelled, and handlers
\* that return or raise, every inserted row eventually has status done or
\* error.
C4_EventuallyOutcome ==
    \A i \in 1..MaxRows :
        [](Len(store) >= i => <>(Len(store) >= i /\ store[i].status \in Terminal))

\* the worker has left the iteration in which it processed row i
IterationOver(i) == returned[i] >= 1 /\ pc[1] \notin {"claim", "exec", "await"}

SummaryNowFor(i) ==
    /\ store[i].action = "summary_now"
    /\ store[i].rule_id # NULL
    /\ ready["_execute_summary"]

ExecutedOnceAndDone(i) ==
    /\ calls[i] = << <<"_execute_summary", store[i].rule_id>> >>
    /\ store[i].status = "done"
    /\ store[i].error = NULL

Unsupported(i) == store[i].action \notin SupportedActions

Processing(d) == pc[d] \in {"claim", "exec", "await"}

HandlerRaises(d) ==
    /\ pc[d] = "await"
    /\ outcomes'[Cur(d).id] = Append(outcomes[Cur(d).id], "raised")

\* C11: when the collaborator operation of a row of the batch raises, that
\* row gets status error and the worker goes on with the rest of the batch in
\* the same iteration: the next row of the batch is the next one it claims,
\* and after the last row it polls again.
C11_HandlerFailureKeepsBatch ==
    [][\A d \in Dispatchers :
          HandlerRaises(d) =>
              /\ store'[Cur(d).id].status = "error"
              /\ batch'[d] = Tail(batch[d])
              /\ pc'[d] = IF batch'[d] = <<>> THEN "poll" ELSE "claim"]_vars

\* C15: with one worker, the batch a poll reads holds the pending rows with
\* the smallest ids in ascending order, and for two rows a < b that a poll
\* found both pending, b is not claimed before a has status done or error.
C15_FifoClaimOrder ==
    [][/\ (pc[1] = "poll" /\ pc'[1] = "claim") =>
              LET pending == {i \in DOMAIN store' : store'[i].status = "pending"}
                  ids == [k \in 1..Len(batch'[1]) |-> batch'[1][k].id]
              IN /\ \A k \in 1..(Len(ids) - 1) : ids[k] < ids[k + 1]
                 /\ \A k \in 1..Len(ids) :
                       /\ ids[k] \in pending
                       /\ \A i \in pending : i < ids[k] => \E j \in 1..k : ids[j] = i
                 /\ Len(ids) = Min(BatchSize, Cardinality(pending))
       /\ \A p \in together :
              (store[p[2]].status = "pending" /\ store'[p[2]].status = "processing")
                  => store[p[1]].status \in Terminal]_vars

\* C16: once the single worker has exited on cancellation, no row it claimed
\* has status processing (rows for which a storage operation raised apart).
C16_CancelCompletesRecord ==
    pc[1] = "exited" => \A i \in Rows \ faulted : store[i].status # "processing"

\* C19: a step in which enqueue_action returns adds exactly one row, with
\* status pending, a null error and a null processed_at; the value returned is
\* the id of that row and is greater than the id of every row that existed
\* and than every value returned before; the rows that existed are unchanged.
C19_EnqueueAddsOnePending ==
    [][issued' # issued =>
          LET id == issued'[Len(issued')] IN
          /\ Len(issued') = Len(issued) + 1
          /\ id \notin DOMAIN store
          /\ DOMAIN store' = DOMAIN store \cup {id}
          /\ store'[id].status = "pending"
          /\ store'[id].error = NULL
          /\ store'[id].processed_at = NULL
          /\ \A i \in DOMAIN store : i < id /\ store'[i] = store[i]
          /\ \A k \in 1..Len(issued) : issued[k] < id]_vars

C19_EnqueuedAfterClaim ==
    /\ issued = <<1, 2>>
    /\ store[1].status \in Terminal
    /\ store[1].processed_at = Some(0)
    /\ store[2].created_at = 1
    /\ store[2].status = "pending"

\* C20: on every table the program reaches, ensure_actions_table does not
\* raise, leaves every row as it is, and calling it again, any number of
\* times, gives the state one call gives.
C20_EnsureSchemaIdempotent ==
    LET db == Database(schema, store)
        once == EnsureActionsTable(db)
    IN /\ ~once.raised
       /\ once.rows = store
       /\ once.table /\ once.index
       /\ EnsureActionsTable(once) = once
       /\ EnsureActionsTable(EnsureActionsTable(once)) = once

C20_EnsuredOverRecords ==
    /\ schema = [table |-> TRUE, index |-> TRUE]
    /\ \E i \in Rows : store[i].status = "done"
    /\ \E i \in Rows : store[i].status = "error"

(***************************************************************************)
(* Properties of the summary watcher.                                      *)
(***************************************************************************)
CallsFor(r) == SelectSeq(cycleCalls, LAMBDA c : c.id = r)

Enabled(r) == rows[r] # NULL /\ Bool(rows[r][1].is_summary)

\* C6: the cycle of the first successful read issues no schedule_rule call,
\* whatever rows it reads, and when it completes last_signatures holds the
\* signature of every row read.
C6_BootstrapIsSilent ==
    /\ cycle.bootstrap => cycleCalls = <<>>
    /\ (cycle.bootstrap /\ cycle.ended = "completed") => last_signatures = SigsOf(rows)

C6_BootstrapCompleted ==
    /\ cycle.bootstrap
    /\ cycle.ended = "completed"
    /\ CurrentIds(rows) = RuleIds
    /\ \E r \in RuleIds : Enabled(r) /\ r \notin tasks

\* C7: when a cycle after the bootstrap is over, every rule of its read whose
\* signature was absent from last_signatures or differed from the stored one
\* got exactly one schedule_rule call in that cycle, with its enabled flag
\* and its fire time ("00:00" for a rule without one).
C7_OneCallPerChangedRule ==
    (/\ wpc = "sleep"
     /\ ~cycle.bootstrap
     /\ cycle.ended \in {"completed", "aborted"}) =>
        \A r \in cycle.changed : CallsFor(r) = <<UpdateCall(r, rows[r][1])>>

C9_RemovedRuleDisabledOnce ==
    \A r \in due :
        /\ dis[r] <= 1
        /\ last_signatures[r] = NULL => dis[r] = 1
        /\ cycle.ended = "completed" => last_signatures[r] = NULL

C9_RemovedAndQuietAgain ==
    \E r \in due :
        /\ dis[r] = 1
        /\ last_signatures[r] = NULL
        /\ cycle.quiet
        /\ cycle.ended = "completed"

\* a cycle is over: it completed, or a schedule_rule call raised
CycleOver == wpc = "sleep" /\ cycle.ended \in {"completed", "aborted"}

\* the rule of the schedule_rule call that raised
Failed == cycleCalls[Len(cycleCalls)].id

\* C12: when a cycle after the bootstrap is over in which the schedule_rule
\* call of one rule raised, every other rule of the read whose signature had
\* changed got a schedule_rule call in that cycle, and no rule missing from
\* the read is still tracked.
C12_OtherRulesStillUpdated ==
    (wpc = "sleep" /\ ~cycle.bootstrap /\ cycle.ended = "aborted") =>
        /\ \A r \in cycle.changed \ {Failed} : CallsFor(r) # <<>>
        /\ \A r \in RuleIds \ CurrentIds(rows) : last_signatures[r] = NULL

\* the (enabled, fire time) part of a signature
Told(signature) == <<signature[1], signature[2]>>

\* C13: when a cycle is over, the (enabled, fire time) stored for a tracked
\* rule equals the arguments of the last schedule_rule call that returned for
\* it, if there was one; and after a completed cycle a rule is tracked
\* exactly when the read returned it.
C13_SignatureIsWhatSchedulerWasTold ==
    CycleOver =>
        /\ \A r \in audited :
              (last_signatures[r] # NULL /\ told[r] # NULL) =>
                  Told(last_signatures[r][1]) = told[r][1]
        /\ cycle.ended = "completed" =>
              \A r \in RuleIds : last_signatures[r] # NULL <=> rows[r] # NULL

\* the loop is between a successful query and the end of its cycle
Reading == wpc \in {"rows", "call", "removed", "rcall"}

\* C14: if a cycle after the bootstrap finds the row of a rule changed to v,
\* and from some time on every query returns v for that rule, then from some
\* time on the last schedule_rule call that returned for the rule carried the
\* enabled flag and the fire time of v.
C14_EventuallyConsistent ==
    \A r \in RuleIds : \A v \in FewRowValues :
        (/\ <>(wpc = "rows" /\ r \in cycle.changed /\ rows[r] = Some(v))
         /\ <>[](Reading => rows[r] = Some(v)))
            => <>[](told[r] = Some(Arguments(UpdateCall(r, v))))

(***************************************************************************)
(* Properties of the two tasks together.                                   *)
(***************************************************************************)
\* C17: the worker and the watcher have exited only if task.cancel() was
\* called on them; a step in which a storage operation raises and the batch
\* is dropped, and a step in which a schedule_rule call raises, leave the
\* task sleeping; and a task that sleeps goes on with a new iteration unless
\* it is cancelled.
C17_OnlyCancellationEndsTasks ==
    /\ [](pc[1] = "exited" => 1 \in cancelled)
    /\ [](wpc = "exited" => wcancelled)
    /\ [][/\ (faulted' # faulted /\ batch'[1] = <<>> /\ returned' = returned)
                => pc'[1] = "sleep"
          /\ (pc[1] = "sleep" /\ pc'[1] # "sleep") => pc'[1] \in {"poll", "exited"}
          /\ (cycle'.ended = "aborted" /\ cycle.ended # "aborted") => wpc' = "sleep"
          /\ (wpc = "sleep" /\ wpc' # "sleep") => wpc' \in {"read", "exited"}]_vars

C17_BothWentOnAfterErrors ==
    /\ faulted # {}
    /\ pc[1] = "claim"
    /\ cycle.ended = "aborted"
    /\ wpc = "sleep"
    /\ cancelled = {}
    /\ ~wcancelled

\* C18: a task that task.cancel() was called on has exited, the call finds
\* the task at a suspension point, and an exited task stays exited: the worker
\* issues no further claim UPDATE and invokes no further collaborator
\* operation, the watcher issues no further schedule_rule call.
C18_CancelledTasksStop ==
    /\ [](\A d \in cancelled : pc[d] = "exited")
    /\ [](wcancelled => wpc = "exited")
    /\ [][/\ 1 \in cancelled' \ cancelled => pc[1] \in {"sleep", "await"}
          /\ (wcancelled' /\ ~wcancelled) => wpc \in {"sleep", "call", "rcall"}
          /\ pc[1] = "exited" =>
                /\ pc'[1] = "exited"
                /\ UNCHANGED <<attempts, wins, calls, outcomes, returned>>
                /\ \A i \in Rows : store'[i] = store[i]
          /\ wpc = "exited" =>
                /\ wpc' = "exited"
                /\ UNCHANGED <<cycleCalls, tasks, last_signatures, told>>]_vars

C18_BothExited ==
    /\ cancelled = {1}
    /\ wcancelled
    /\ pc[1] = "exited"
    /\ wpc = "exited"
    /\ \E i \in Rows : store[i].status = "pending" /\ attempts[i] = 0
    /\ cycleCalls # <<>>

(***************************************************************************)
(* Properties of the routing of _process_one_action, one worker instance.  *)
(***************************************************************************)
NeedsRuleId(i) == store[i].action \in {"summary_now", "ufb_sync"}

OperationOf(action) ==
    CASE action = "summary_now" -> "_execute_summary"
      [] action = "summary_all_now" -> "execute_all_summaries"
      [] action = "ufb_sync" -> "sync_to_server"
      [] action = "update_chats_now" -> "_update_all_chats"

NotReadyMessage(action) ==
    CASE action \in {"summary_now", "summary_all_now"} -> MsgSchedulerNotReady
      [] action = "ufb_sync" -> MsgDbOpsNotReady
      [] action = "update_chats_now" -> MsgChatUpdaterNotReady

NotReadyMessages == {MsgSchedulerNotReady, MsgDbOpsNotReady, MsgChatUpdaterNotReady}

\* the try block of _process_one_action runs for the row the worker claimed
Executes == pc[1] = "exec" /\ pc'[1] # "exec"

\* the operation the claimed row needs fails the readiness check
Unready ==
    /\ Cur(1).action \in SupportedActions
    /\ ~ready[OperationOf(Cur(1).action)]

RefusedAsNotReady ==
    /\ calls' = calls
    /\ returned' # returned =>
          /\ store'[Cur(1).id].status = "error"
          /\ store'[Cur(1).id].error = Some(NotReadyMessage(Cur(1).action))

\* a row in error with a not-ready message is never claimed or written again
\* and no operation is invoked for it
NotReadyIsFinal ==
    \A i \in Rows :
        /\ store[i].status = "error"
        /\ store[i].error # NULL
        /\ store[i].error[1] \in NotReadyMessages
        => /\ store'[i] = store[i]
           /\ calls'[i] = <<>>
           /\ attempts'[i] = attempts[i]
           /\ returned'[i] = returned[i]

\* C22: whenever the operation a row needs is missing, processing the row
\* invokes nothing and leaves it in error with the not-ready message; a row
\* in error with a not-ready message is never claimed, written or executed
\* again, also after the operation turned up.
C22_NotReadyIsErrorForGood ==
    [][/\ Executes /\ Unready => RefusedAsNotReady
       /\ NotReadyIsFinal]_vars

\* C23: in every state, a row whose error column is not NULL has status
\* error.
C23_ErrorOnlyWithStatusError ==
    \A i \in Rows : store[i].error # NULL => store[i].status = "error"

\* a row is done with a NULL error after an operation invoked for it raised,
\* so after an error text was written for it
C23_DoneAfterError ==
    \E i \in Rows :
        /\ store[i].status = "done"
        /\ store[i].error = NULL
        /\ \E k \in DOMAIN outcomes[i] : outcomes[i][k] = "raised"

Prefix(e, t) == Len(e) <= Len(t) /\ SubSeq(t, 1, Len(e)) = e

\* str(exc) of the exception the except clause of _process_one_action caught
\* for row i: raised by the invoked operation, or by the checks before it
Caught(i) ==
    IF calls[i] # <<>> THEN exc_text
    ELSE Route(store[i].action, store[i].rule_id, ready).msg

\* C24: the error text stored for a row is a prefix of the message of the
\* exception caught for it, and is at most 2000 characters long, whatever
\* the length of the message.
C24_StoredErrorIsBoundedPrefix ==
    \A i \in Rows :
        store[i].error # NULL =>
            /\ Prefix(store[i].error[1], Caught(i))
            /\ Len(store[i].error[1]) <= ErrorLimit

\* an error text was stored for an exception whose message is longer than
\* the limit
C24_LongMessageStored ==
    \E i \in Rows :
        /\ store[i].error # NULL
        /\ calls[i] # <<>>
        /\ Len(exc_text) > ErrorLimit

\* C25: no step of enqueue_action, ensure_actions_table or the worker
\* removes a row or changes the action, rule_id, payload or created_at
\* stored under an id; the set of ids only grows.
C25_RowsKeepIdentity ==
    [][\A i \in DOMAIN store :
          /\ i \in DOMAIN store'
          /\ store'[i].action = store[i].action
          /\ store'[i].rule_id = store[i].rule_id
          /\ store'[i].payload = store[i].payload
          /\ store'[i].created_at = store[i].created_at]_vars

\* a row was enqueued after another one was claimed later than it was
\* created and got its outcome
C25_EnqueuedBesideFinished ==
    \E i, j \in Rows :
        /\ i < j
        /\ store[i].status \in Terminal
        /\ store[i].processed_at # NULL
        /\ store[i].processed_at[1] > store[i].created_at
        /\ store[j].created_at >= store[i].processed_at[1]

FleetWide(i) == store[i].action \in {"summary_all_now", "update_chats_now"}

\* C27: at most one operation is invoked for a row, and only for a row of a
\* supported action: the operation that action maps to, with the row's
\* rule_id for summary_now and ufb_sync and without argument for
\* summary_all_now and update_chats_now.  A summary_all_now or
\* update_chats_now row without rule_id never gets the rule_id error, and is
\* done once its operation returned and _process_one_action returned with
\* no storage operation on the row raising.
C27_RoutedByActionOnly ==
    \A i \in Rows :
        /\ Len(calls[i]) <= 1
        /\ \A k \in DOMAIN calls[i] :
              /\ store[i].action \in SupportedActions
              /\ calls[i][k] = <<OperationOf(store[i].action),
                                 IF NeedsRuleId(i) THEN store[i].rule_id ELSE NULL>>
        /\ FleetWide(i) /\ store[i].rule_id = NULL =>
              /\ store[i].error # Some(MsgRuleIdEmpty)
              /\ /\ returned[i] = 1
                 /\ outcomes[i] = <<"returned">>
                 /\ i \notin faulted
                 => store[i].status = "done"

\* an update_chats_now row without rule_id, as the web route enqueues it,
\* is done after _update_all_chats was invoked for it
C27_ChatsUpdatedWithoutRuleId ==
    \E i \in Rows :
        /\ store[i].action = "update_chats_now"
        /\ store[i].rule_id = NULL
        /\ calls[i] = <<(<<"_update_all_chats", NULL>>)>>
        /\ store[i].status = "done"

\* row i is in processing and the worker is not in _process_one_action for it
Abandoned(i) ==
    /\ store[i].status = "processing"
    /\ ~(Processing(1) /\ Cur(1).id = i)

\* C28: a SELECT of the worker returns no row that is in processing; no
\* operation is invoked twice for a row; a row that is in processing while
\* the worker is not processing it (its process died between the claim
\* UPDATE and the outcome UPDATE) stays so in every later state, with no
\* further claim or invocation, also after the worker was started again.
C28_NoReclaim ==
    [][/\ pc[1] = "poll" /\ pc'[1] = "claim" =>
             \A k \in DOMAIN batch'[1] : store[batch'[1][k].id].status = "pending"
       /\ \A i \in Rows :
             /\ Len(calls'[i]) <= 1
             /\ Abandoned(i) =>
                   /\ Abandoned(i)'
                   /\ calls'[i] = calls[i]
                   /\ attempts'[i] = attempts[i]]_vars

\* the process died while the operation of a claimed row was awaited, it
\* was started again, and its SELECT found nothing to do
C28_RestartedBesideProcessing ==
    \E i \in Rows :
        /\ store[i].status = "processing"
        /\ calls[i] # <<>>
        /\ pc[1] = "sleep"

\* C29: a cycle that is over and whose query returned a rule that had been
\* popped from last_signatures, and was not stored again since, issued
\* exactly one schedule_rule call for that rule, with the flag and the time
\* of the row it read, whatever the signature the rule had before.
C29_ReappearedRuleIsScheduledOnce ==
    CycleOver =>
        \A r \in gone \cap CurrentIds(rows) :
            CallsFor(r) = <<UpdateCall(r, rows[r][1])>>

\* C30: when a cycle is over, a rule its query did not return, and that was
\* not tracked with a job when the queries stopped returning it, has no
\* schedule_rule call in that cycle and is absent from last_signatures: if
\* it was tracked without a job, the cycle removed it without a call.
C30_JoblessRuleRemovedSilently ==
    CycleOver =>
        \A r \in RuleIds \ CurrentIds(rows) :
            r \notin due =>
                /\ CallsFor(r) = <<>>
                /\ last_signatures[r] = NULL

(***************************************************************************)
(* Properties of the signature comparison of watch_summary_settings.       *)
(***************************************************************************)
\* a rule's configuration: its enabled flag, fire time, prompt and top flag
Configuration(row) ==
    <<Bool(row.is_summary), StrOr(row.summary_time, ""),
      StrOr(row.summary_prompt, ""), Bool(row.is_top_summary)>>

\* the arguments of a schedule_rule call for a rule with that signature
ArgumentsOf(signature) ==
    <<signature[1], IF signature[2] = "" THEN "00:00" ELSE signature[2]>>

\* C31: when the loop, after the bootstrap, comes to a row whose stored
\* signature differs from the row's only in the prompt or only in the top
\* flag, it issues one schedule_rule call for the rule, whose flag and fire
\* time are those of the stored signature; when the stored signature equals
\* the row's in all four fields it issues none; and no cycle has two calls
\* for one rule.
C31_FourFieldSignature ==
    [][/\ (wpc = "rows" /\ todo # <<>> /\ initialized) =>
             LET r == Head(todo)
                 old == last_signatures[r]
                 new == Configuration(rows[r][1])
             IN /\ (/\ old # NULL
                     /\ old[1] # new
                     /\ Told(old[1]) = Told(new)
                     /\ (old[1][3] = new[3] \/ old[1][4] = new[4])) =>
                       /\ Len(cycleCalls') = Len(cycleCalls) + 1
                       /\ cycleCalls'[Len(cycleCalls')].id = r
                       /\ Arguments(cycleCalls'[Len(cycleCalls')]) = ArgumentsOf(old[1])
                /\ old = Some(new) => cycleCalls' = cycleCalls
       /\ \A r \in RuleIds : Len(CallsFor(r)') <= 1]_vars

\* the cycle before completed with a signature for a rule, and this cycle
\* has just issued a call for the rule because only its prompt or only its
\* top flag differs
C31_CalledForPromptOrTopOnly ==
    /\ wpc = "call"
    /\ baseline # NULL
    /\ LET r == Head(todo)
           new == Configuration(rows[r][1])
       IN /\ baseline[1][r] # NULL
          /\ Told(baseline[1][r][1]) = Told(new)
          /\ baseline[1][r][1] # new
          /\ cycleCalls[Len(cycleCalls)] = UpdateCall(r, rows[r][1])

\* C32: the readiness of the collaborator is checked before rule_id: a
\* summary_now or ufb_sync row that has no rule_id and whose operation is
\* missing is, once _process_one_action has returned for it, in error with
\* the not-ready message.
C32_ReadinessCheckedBeforeRuleId ==
    [][(/\ Executes
        /\ Unready
        /\ NeedsRuleId(Cur(1).id)
        /\ Cur(1).rule_id = NULL
        /\ returned' # returned) =>
            /\ store'[Cur(1).id].status = "error"
            /\ store'[Cur(1).id].error = Some(NotReadyMessage(Cur(1).action))]_vars

PendingIds(s) == Ascending({i \in DOMAIN s : s[i].status = "pending"})

\* the ids of the rows the worker still has to go through in this iteration
BatchIds(d) == [k \in 1..Len(batch[d]) |-> batch[d][k].id]

\* C34: the SELECT of an iteration returns at most batch_size rows, the
\* pending rows of lowest id, and leaves every row as it is; until the next
\* SELECT the worker only drops rows from that batch, and a row leaves
\* 'pending' only when it is the row of the batch the worker is at, so the
\* pending rows beyond the first batch_size stay pending until a later
\* iteration.
C34_AtMostBatchSizePerIteration ==
    [][/\ (pc[1] = "poll" /\ pc'[1] = "claim") =>
             /\ Len(batch'[1]) <= BatchSize
             /\ BatchIds(1)' = SubSeq(PendingIds(store'), 1, Len(batch'[1]))
             /\ \A i \in Rows : store'[i] = store[i]
       /\ pc[1] # "poll" =>
             \/ batch'[1] \in {batch[1], <<>>}
             \/ batch[1] # <<>> /\ batch'[1] = Tail(batch[1])
       /\ \A i \in Rows :
             store[i].status = "pending" /\ store'[i].status # "pending" =>
                 /\ pc[1] = "claim"
                 /\ i = Cur(1).id]_vars

\* a SELECT found more than batch_size pending rows; the worker went through
\* its batch and the row beyond it is still pending
C34_RowLeftForLaterIteration ==
    /\ pc[1] = "poll"
    /\ \A j \in 1..BatchSize : j \in Rows /\ store[j].status \in Terminal
    /\ \E i \in Rows :
          /\ i > BatchSize
          /\ <<1, i>> \in together
          /\ store[i].status = "pending"

(***************************************************************************)
(* Properties of what the watcher compares.                                *)
(***************************************************************************)
\* a schedule_rule call for rule r is issued in this step
Issues(r) == Len(CallsFor(r)') > Len(CallsFor(r))

\* C35: a schedule_rule call for a rule is issued only after the bootstrap
\* and only when the row read for it has a signature other than the stored
\* one (or the rule is gone from the read), whether or not the scheduler has
\* a job for the rule; so a rule whose row and job disagree at the bootstrap
\* gets no call in the bootstrap cycle nor later, as long as its signature
\* stays what it was.
C35_NoCallWithoutSignatureChange ==
    [][\A r \in RuleIds :
          Issues(r) =>
              /\ initialized
              /\ rows[r] # NULL => last_signatures[r] # Some(Configuration(rows[r][1]))]_vars

\* a cycle after the bootstrap completed without a call although the
\* scheduler, never called, has no job for an enabled rule and has a job for
\* a rule that is not enabled
C35_DivergenceLeftAlone ==
    /\ ~cycle.bootstrap
    /\ cycle.ended = "completed"
    /\ cycleCalls = <<>>
    /\ \A r \in RuleIds : told[r] = NULL
    /\ \E r \in RuleIds : Enabled(r) /\ r \notin tasks
    /\ \E r \in RuleIds : rows[r] # NULL /\ ~Enabled(r) /\ r \in tasks

\* C36: the watcher learns of a change only from the signature of the row it
\* reads: in a cycle there is at most one schedule_rule call for a rule, none
\* in the bootstrap cycle, and only for a rule whose row was read with a
\* signature other than the one stored at the read, or that is gone from the
\* read.  So a row that was changed and changed back between two reads gets
\* no call, and a rule gets no more calls than there are cycles after the
\* bootstrap whose read differs from what is stored.
C36_CallsOnlyForSignaturesThatDiffer ==
    [][\A r \in RuleIds :
          Issues(r) =>
              /\ CallsFor(r) = <<>>
              /\ ~cycle.bootstrap
              /\ (r \in cycle.changed \/ rows[r] = NULL)]_vars

\* the row of rule 1 was committed to twice after the watcher woke, to another
\* signature and back; the read that followed found the signatures of the
\* completed read before it and the cycle completed without a call
C36_ChangedAndChangedBack ==
    /\ cycle.quiet
    /\ cycle.ended = "completed"
    /\ cycleCalls = <<>>
    /\ Len(forward_rules) >= 3
    /\ rows = forward_rules[3]
    /\ \A k \in {1, 2, 3} : forward_rules[k][1] # NULL
    /\ last_signatures[1] = Some(Configuration(forward_rules[1][1][1]))
    /\ Configuration(forward_rules[2][1][1]) # Configuration(forward_rules[1][1][1])
    /\ Configuration(forward_rules[3][1][1]) = Configuration(forward_rules[1][1][1])

(***************************************************************************)
(* Properties of an outcome UPDATE that raises.                            *)
(***************************************************************************)
\* an UPDATE of _mark_action_done or _mark_action_error raises in this step
OutcomeWriteRaises == pc[1] \in {"exec", "await"} /\ faults' # faults

\* the rows of the batch after the row the worker is at
RestOfBatch == {batch[1][k].id : k \in 2..Len(batch[1])}

\* the exception left _process_one_action: the row keeps status processing,
\* the rows of the batch after it stay pending and the loop sleeps
LeftInProcessing ==
    /\ store'[Cur(1).id].status = "processing"
    /\ \A j \in RestOfBatch : store'[j] = store[j] /\ store[j].status = "pending"
    /\ batch'[1] = <<>>
    /\ pc'[1] = "sleep"

\* row j is pending
Pending(j) == IF j \in Rows THEN store[j].status = "pending" ELSE FALSE

\* row j is pending while a row is left in processing
PendingBesideProcessing(j) == Pending(j) /\ \E i \in Rows : Abandoned(i)

C38_FlagSetByCompletedCycleForGood ==
    [][/\ initialized => initialized'
       /\ (~initialized /\ initialized') =>
             /\ wpc = "removed" /\ removedLeft = {}
             /\ cycle.bootstrap
             /\ cycle'.ended = "completed"
             /\ cycleCalls = <<>>
       /\ ~initialized => cycleCalls' = <<>>
       /\ (/\ initialized /\ wpc = "rows" /\ todo # <<>> /\ todo' # todo) =>
             last_signatures[Head(todo)] = Some(Configuration(rows[Head(todo)][1]))
       /\ (/\ initialized /\ wpc = "rows" /\ todo # <<>>
           /\ last_signatures[Head(todo)] # Some(Configuration(rows[Head(todo)][1]))
           /\ wpc' # "exited") =>
             Issues(Head(todo))]_vars

\* the query raised before any cycle completed: the watcher sleeps with the
\* flag still False, nothing stored and no call issued
C38_ReadFailedBeforeBootstrap ==
    /\ wpc = "sleep"
    /\ cycle.ended = "none"
    /\ ~initialized
    /\ last_signatures = NoRows
    /\ \A r \in RuleIds : told[r] = NULL

\* C39: when a cycle has completed, last_signatures has a key for exactly the
\* rule ids of the rows the query of that cycle returned, and the value of
\* each key is the signature of the row returned for it.
C39_DictMirrorsCompletedRead ==
    (wpc = "sleep" /\ cycle.ended = "completed") =>
        \A r \in RuleIds :
            last_signatures[r] =
                IF rows[r] = NULL THEN NULL ELSE Some(Configuration(rows[r][1]))

\* a cycle after the bootstrap completed whose query returned a row with a
\* new signature for one rule and no row for a rule that had a key and no job
C39_ChangedAndRemovedInOneCycle ==
    /\ wpc = "sleep"
    /\ cycle.ended = "completed"
    /\ ~cycle.bootstrap
    /\ cycle.changed # {}
    /\ \E r \in gone : rows[r] = NULL /\ r \notin tasks /\ told[r] = NULL

(***************************************************************************)
(* Properties of repeated enqueue_action calls.                            *)
(***************************************************************************)
SyncCall == <<"sync_to_server", Some(42)>>

\* row i exists
Inserted(i) == i \in Rows

\* sync_to_server was invoked once for row i
SyncedOnce(i) == IF i \in Rows THEN calls[i] = <<SyncCall>> ELSE FALSE

\* C40: every enqueue_action call for the same action and rule inserts a row
\* of its own, with its own id, whatever rows are in the table; a pending row
\* has had no invocation and no row has more than one; and with one worker
\* that keeps running, db_ops ready and storage that recovers, sync_to_server
\* is eventually invoked for every row, so n calls of enqueue_action give n
\* invocations.
C40_EveryEnqueueIsExecutedOnce ==
    /\ [](/\ issued = [k \in 1..Len(store) |-> k]
          /\ \A i \in Rows :
                /\ store[i].action = "ufb_sync" /\ store[i].rule_id = Some(42)
                /\ calls[i] \in {<<>>, <<SyncCall>>}
                /\ store[i].status = "pending" => calls[i] = <<>>)
    /\ \A i \in 1..MaxRecords : Inserted(i) ~> SyncedOnce(i)

\* two rows for the same action and rule were inserted while both were
\* pending, and sync_to_server was invoked once for each
C40_DuplicatesBothExecuted ==
    /\ <<1, 2>> \in together
    /\ store[1].action = store[2].action
    /\ store[1].rule_id = store[2].rule_id
    /\ calls[1] = <<SyncCall>>
    /\ calls[2] = <<SyncCall>>

====
